---- MODULE Spec2Model ----
(***************************************************************************)
(* Model of the email-validator server: the XLSX batch processor           *)
(* (server/xlsxProcessor.ts) and the Express server with its registry of   *)
(* SSE connections (server/server.ts).                                     *)
(*                                                                         *)
(* Node runs one callback at a time.  A request handler runs without       *)
(* interruption until it reaches an await that waits for a timer or for    *)
(* the network; only then can another callback (a new request, a client    *)
(* disconnect, another run's continuation) execute.  The variable `active` *)
(* holds the run whose synchronous code is executing, or NoRun.            *)
(***************************************************************************)
EXTENDS Integers, Sequences, FiniteSets, TLC

\* ------------------------------------------------------------------ bounds
MaxRows == 2         \* longest row sequence read from an uploaded file
MaxChannels == 2     \* subscriber connections opened in one behaviour

Runs == {1}          \* the upload requests of one behaviour
Sessions == {1}      \* the session identifiers in use
NoSession == 0       \* sessionId is null: the request carried no session id
NoConn == 0          \* sseConnections.get(sessionId) is undefined
NoRun == 0

\* -------------------------------------------------------------- JS values
\* A JavaScript value is [t |-> its typeof, v |-> a sequence of tokens].  A
\* string's tokens are its characters, so that trim() has something to do.
Str(chars) == [t |-> "string", v |-> chars]
Num(digits) == [t |-> "number", v |-> <<digits>>]
Undefined == [t |-> "undefined", v |-> <<>>]
Bool(b) == [t |-> "boolean", v |-> IF b THEN <<"true">> ELSE <<"false">>]
Obj(fields) == [t |-> "object", v |-> fields]

\* JavaScript truthiness: '', 0, false and undefined are falsy.
Truthy(x) ==
  CASE x.t = "string" -> x.v # <<>>
    [] x.t = "number" -> x.v # <<"0">>
    [] x.t = "boolean" -> x.v = <<"true">>
    [] x.t = "undefined" -> FALSE
    [] OTHER -> TRUE

\* a || b
Or(a, b) == IF Truthy(a) THEN a ELSE b

IsString(x) == x.t = "string"

RECURSIVE TrimStart(_)
TrimStart(s) == IF s # <<>> /\ Head(s) = " " THEN TrimStart(Tail(s)) ELSE s

RECURSIVE TrimEnd(_)
TrimEnd(s) ==
  IF s # <<>> /\ s[Len(s)] = " " THEN TrimEnd(SubSeq(s, 1, Len(s) - 1)) ELSE s

\* email.trim()
Trim(x) == Str(TrimEnd(TrimStart(x.v)))

\* ------------------------------------------------------------------- rows
\* A row (EmailRow) is an object: a sequence of [k, v] properties with
\* distinct keys, in insertion order.
KeyIndex(row, key) == {i \in 1..Len(row) : row[i].k = key}

\* row[key]
Get(row, key) ==
  IF KeyIndex(row, key) = {} THEN Undefined
  ELSE row[CHOOSE i \in KeyIndex(row, key) : TRUE].v

\* row[Object.keys(row)[0]]
GetFirst(row) == IF row = <<>> THEN Undefined ELSE row[1].v

\* { ...obj, key: val }: an existing property keeps its place, a new one is
\* appended.
Assign(obj, key, val) ==
  IF KeyIndex(obj, key) = {} THEN Append(obj, [k |-> key, v |-> val])
  ELSE [i \in 1..Len(obj) |-> IF obj[i].k = key THEN [k |-> key, v |-> val] ELSE obj[i]]

\* const email = row[emailColumn] || row[Object.keys(row)[0]]
ExtractEmail(row, emailColumn) == Or(Get(row, emailColumn), GetFirst(row))

\* Mutant: the typeof check is missing.
InvalidInputFalsyOnly(email) == ~Truthy(email)

\* if (!email || typeof email !== 'string')
InvalidInput(email) == ~Truthy(email) \/ ~IsString(email)

\* ---------------------------------------------------------------- chain
\* validate() of the validation library is called once per address.  What it
\* answers is an input of the run: "pass", the name of the stage that failed,
\* or "throw" when the call rejects.
Stages == <<"regex", "typo", "disposable", "mx", "smtp">>
StageIndex(name) == CHOOSE k \in 1..Len(Stages) : Stages[k] = name
ChainOutcomes == {"pass", "throw"} \cup {Stages[k] : k \in 1..Len(Stages)}

\* The OutputFormat validate() resolves to: stages run in order and stop at
\* the first failure; reason names the failed stage.
ChainOutput(out) ==
  LET last == IF out = "pass" THEN Len(Stages) ELSE StageIndex(out)
  IN  [valid |-> out = "pass",
       reason |-> IF out = "pass" THEN Undefined ELSE Str(<<out>>),
       validators |-> Obj([k \in 1..last |->
                             IF Stages[k] = out THEN Stages[k] \o ":false"
                                                ELSE Stages[k] \o ":true"])]

\* error instanceof Error ? error.message : 'Unknown error'
ChainErrorMessage == "chain failed"

\* ------------------------------------------------- validateEmails (no SSE)
\* results.push({ ...row, email: email || '', valid: false,
\*                reason: 'Invalid email format' })
InvalidInputResult(row, email) ==
  Assign(Assign(Assign(row, "email", Or(email, Str(<<>>))),
                "valid", Bool(FALSE)),
         "reason", Str(<<"Invalid email format">>))

\* Mutant: the verdicts of the stages are not copied into the row.
ValidatedResultNoVerdicts(row, emailToValidate, validationResult) ==
  Assign(Assign(Assign(row, "email", emailToValidate),
                "valid", Bool(validationResult.valid)),
         "reason", validationResult.reason)

\* results.push({ ...row, email: emailToValidate, valid: isValid,
\*                reason: validationResult.reason,
\*                validators: validationResult.validators })
ValidatedResult(row, emailToValidate, validationResult) ==
  Assign(Assign(Assign(Assign(row, "email", emailToValidate),
                       "valid", Bool(validationResult.valid)),
                "reason", validationResult.reason),
         "validators", validationResult.validators)

\* results.push({ ...row, email: emailToValidate, valid: false,
\*                reason: `Validation error: ${errorMessage}` })
ErrorResult(row, emailToValidate, errorMessage) ==
  Assign(Assign(Assign(row, "email", emailToValidate),
                "valid", Bool(FALSE)),
         "reason", Str(<<"Validation error: ", errorMessage>>))

\* One iteration of the loop of validateEmails for row `row`, whose call of
\* validate() (if it is made) answers `out`.
ValidateRow(row, emailColumn, out) ==
  LET email == ExtractEmail(row, emailColumn)
  IN  IF InvalidInput(email) THEN InvalidInputResult(row, email)
      ELSE IF out = "throw" THEN ErrorResult(row, Trim(email), ChainErrorMessage)
      ELSE ValidatedResult(row, Trim(email), ChainOutput(out))

\* Mutant: each result is put in front of the earlier ones.
RECURSIVE ValidateEmailsLoopUnshift(_, _, _, _, _)
ValidateEmailsLoopUnshift(emails, emailColumn, chain, i, results) ==
  IF i > Len(emails) THEN results
  ELSE ValidateEmailsLoopUnshift(emails, emailColumn, chain, i + 1,
         <<ValidateRow(emails[i], emailColumn, chain[i])>> \o results)

\* validateEmails(emails, emailColumn): chain[i] is what validate() answers
\* for row i.
RECURSIVE ValidateEmailsLoop(_, _, _, _, _)
ValidateEmailsLoop(emails, emailColumn, chain, i, results) ==
  IF i > Len(emails) THEN results
  ELSE ValidateEmailsLoop(emails, emailColumn, chain, i + 1,
                          Append(results, ValidateRow(emails[i], emailColumn, chain[i])))

ValidateEmails(emails, emailColumn, chain) ==
  ValidateEmailsLoop(emails, emailColumn, chain, 1, <<>>)

\* results.filter((r) => r.valid).length
CountValid(results) ==
  Cardinality({i \in 1..Len(results) : Truthy(Get(results[i], "valid"))})

\* Mutant: rows that never reached the chain are left out of the count.
CountInvalidChainOnly(results) ==
  Cardinality({i \in 1..Len(results) :
                 /\ ~Truthy(Get(results[i], "valid"))
                 /\ KeyIndex(results[i], "validators") # {}})

\* results.filter((r) => !r.valid).length
CountInvalid(results) ==
  Cardinality({i \in 1..Len(results) : ~Truthy(Get(results[i], "valid"))})

\* { total: results.length, valid, invalid }
StatsOf(results) ==
  [total |-> Len(results), valid |-> CountValid(results),
   invalid |-> CountInvalid(results)]

ZeroStats == [total |-> 0, valid |-> 0, invalid |-> 0]

\* processXLSXFile: readOk / writeOk say whether XLSX.readFile and
\* XLSX.writeFile succeed.  The outcome is what the caller gets: the stats
\* returned, or a thrown error; `results` is what was handed to
\* writeResultsToXLSX and `written` whether the output file exists afterwards.
ProcessXLSXFile(readOk, emails, emailColumn, chain, writeOk) ==
  IF ~readOk
  THEN [threw |-> TRUE, stats |-> ZeroStats, results |-> <<>>, written |-> FALSE]
  ELSE IF Len(emails) = 0
  THEN [threw |-> FALSE, stats |-> ZeroStats, results |-> <<>>, written |-> FALSE]
  ELSE LET results == ValidateEmails(emails, emailColumn, chain)
       IN  IF ~writeOk
           THEN [threw |-> TRUE, stats |-> ZeroStats, results |-> results,
                 written |-> FALSE]
           ELSE [threw |-> FALSE, stats |-> StatsOf(results), results |-> results,
                 written |-> TRUE]

\* ------------------------------------------ validateEmailsWithSSE results
\* const result = { ...row, email: email || '', valid: false,
\*                  reason: 'Invalid email format' }
SSEInvalidInputResult(row, email) ==
  Assign(Assign(Assign(row, "email", Or(email, Str(<<>>))),
                "valid", Bool(FALSE)),
         "reason", Str(<<"Invalid email format">>))

\* const result = { ...row, email: emailToValidate, valid: isValid,
\*                  reason: validationResult.reason,
\*                  validators: validationResult.validators }
SSEValidatedResult(row, emailToValidate, validationResult) ==
  Assign(Assign(Assign(Assign(row, "email", emailToValidate),
                       "valid", Bool(validationResult.valid)),
                "reason", validationResult.reason),
         "validators", validationResult.validators)

\* const result = { ...row, email: emailToValidate, valid: false,
\*                  reason: `Validation error: ${errorMessage}` }
SSEErrorResult(row, emailToValidate, errorMessage) ==
  Assign(Assign(Assign(row, "email", emailToValidate),
                "valid", Bool(FALSE)),
         "reason", Str(<<"Validation error: ", errorMessage>>))

\* ----------------------------------------------------------------- events
\* The objects handed to sendSSEMessage.  A field an event does not carry
\* holds a default.
Event(type) ==
  [type |-> type, sessionId |-> NoSession, total |-> 0, email |-> Undefined,
   valid |-> FALSE, reason |-> Undefined, stats |-> ZeroStats,
   filename |-> NoRun, message |-> ""]

\* { type: 'connected', sessionId }
ConnectedEvent(sessionId) == [Event("connected") EXCEPT !.sessionId = sessionId]

\* { type: 'start', total: emails.length }
StartEvent(total) == [Event("start") EXCEPT !.total = total]

\* { type: 'email', email, valid, reason }
EmailEvent(email, valid, reason) ==
  [Event("email") EXCEPT !.email = email, !.valid = valid, !.reason = reason]

\* { type: 'complete', stats: {...}, downloadUrl, filename: outputFilename }
CompleteEvent(stats, outputFilename) ==
  [Event("complete") EXCEPT !.stats = stats, !.filename = outputFilename]

\* { type: 'error', message }
ErrorEvent(message) == [Event("error") EXCEPT !.message = message]

IsTerminal(e) == e.type \in {"complete", "error"}

\* ------------------------------------------------------------- the server
VARIABLES
  sseConnections,  \* the Map: session id -> channel, NoConn when absent
  channels,        \* every response object handed to the stream endpoint
  run,             \* the POST /api/validate-emails requests
  active           \* the run whose synchronous code is executing

vars == <<sseConnections, channels, run, active>>

\* A channel is the Response of one GET /api/validate-emails-stream request.
\*   log       what was written to it and delivered
\*   ends      how many times end() was called on it
\*   closed    the request's 'close' handler has run
\*   afterEnd  write() was called on it after end()
NewChannel(sessionId) ==
  [session |-> sessionId, log |-> <<ConnectedEvent(sessionId)>>, ends |-> 0,
   closed |-> FALSE, afterEnd |-> FALSE]

\* connection.write(message): what is written after end() is not delivered.
Write(chans, c, data) ==
  IF chans[c].ends > 0
  THEN [chans EXCEPT ![c].afterEnd = TRUE]
  ELSE [chans EXCEPT ![c].log = Append(@, data)]

\* connection.end()
End(chans, c) == [chans EXCEPT ![c].ends = @ + 1]

\* Mutant: no try/catch around write(): the exception reaches the caller.
SendSSEMessageNoCatch(conns, chans, sessionId, data, writeThrows) ==
  LET connection == conns[sessionId]
  IN  IF connection # NoConn
      THEN IF writeThrows
           THEN [conns |-> conns, chans |-> chans, threw |-> TRUE]
           ELSE [conns |-> conns, chans |-> Write(chans, connection, data),
                 threw |-> FALSE]
      ELSE [conns |-> conns, chans |-> chans, threw |-> FALSE]

\* Mutant: a failed write leaves the registry entry in place.
SendSSEMessageKeepsEntry(conns, chans, sessionId, data, writeThrows) ==
  LET connection == conns[sessionId]
  IN  IF connection # NoConn /\ ~writeThrows
      THEN [conns |-> conns, chans |-> Write(chans, connection, data),
            threw |-> FALSE]
      ELSE [conns |-> conns, chans |-> chans, threw |-> FALSE]

\* Mutant: publishing for a session without a registry entry is an error.
SendSSEMessageRequiresEntry(conns, chans, sessionId, data, writeThrows) ==
  LET connection == conns[sessionId]
  IN  IF connection # NoConn
      THEN IF writeThrows
           THEN [conns |-> [conns EXCEPT ![sessionId] = NoConn],
                 chans |-> chans, threw |-> FALSE]
           ELSE [conns |-> conns, chans |-> Write(chans, connection, data),
                 threw |-> FALSE]
      ELSE [conns |-> conns, chans |-> chans, threw |-> TRUE]

\* Mutant: the message goes to every registered connection.
SendSSEMessageBroadcast(conns, chans, sessionId, data, writeThrows) ==
  LET connection == conns[sessionId]
      registered == {conns[s] : s \in DOMAIN conns} \ {NoConn}
  IN  IF connection # NoConn
      THEN IF writeThrows
           THEN [conns |-> [conns EXCEPT ![sessionId] = NoConn],
                 chans |-> chans, threw |-> FALSE]
           ELSE [conns |-> conns,
                 chans |-> [c \in DOMAIN chans |->
                              IF c \in registered THEN Write(chans, c, data)[c]
                              ELSE chans[c]],
                 threw |-> FALSE]
      ELSE [conns |-> conns, chans |-> chans, threw |-> FALSE]

\* sendSSEMessage(sessionId, data), as a function of the registry and the
\* channels: the registry and the channels afterwards, and whether it threw.
\* writeThrows says whether connection.write (or flush) throws in this call.
SendSSEMessage(conns, chans, sessionId, data, writeThrows) ==
  LET connection == conns[sessionId]
  IN  IF connection # NoConn
      THEN IF writeThrows
           THEN [conns |-> [conns EXCEPT ![sessionId] = NoConn],
                 chans |-> chans, threw |-> FALSE]
           ELSE [conns |-> conns, chans |-> Write(chans, connection, data),
                 threw |-> FALSE]
      ELSE [conns |-> conns, chans |-> chans, threw |-> FALSE]

\* Mutant: the connection is ended and its registry entry is kept.
EndWithoutDelete(conns, chans, sessionId) ==
  LET connection == conns[sessionId]
  IN  IF connection # NoConn
      THEN [conns |-> conns, chans |-> End(chans, connection)]
      ELSE [conns |-> conns, chans |-> chans]

\* const connection = sseConnections.get(sessionId)
\* if (connection) { connection.end(); sseConnections.delete(sessionId) }
EndAndDelete(conns, chans, sessionId) ==
  LET connection == conns[sessionId]
  IN  IF connection # NoConn
      THEN [conns |-> [conns EXCEPT ![sessionId] = NoConn],
            chans |-> End(chans, connection)]
      ELSE [conns |-> conns, chans |-> chans]

\* ----------------------------------------------------------------- inputs
\* Rows as XLSX.utils.sheet_to_json yields them: an empty cell is no
\* property of its row, and every row has at least one property.
RowPadded == <<[k |-> "email", v |-> Str(<<" ", "a", " ">>)],
               [k |-> "name", v |-> Str(<<"n">>)]>>
RowNumber == <<[k |-> "email", v |-> Num("42")]>>
RowNoAddress == <<[k |-> "name", v |-> Num("0")]>>
SampleRows == {RowPadded, RowNumber, RowNoAddress}

\* Rows with a cell of white space only, with an empty string in the email
\* column after another column, and with a column named like a result field.
RowBlank == <<[k |-> "email", v |-> Str(<<" ", " ">>)]>>
RowEmptyNamed == <<[k |-> "name", v |-> Str(<<"b">>)],
                   [k |-> "email", v |-> Str(<<>>)]>>
RowShadow == <<[k |-> "email", v |-> Str(<<"a">>)],
               [k |-> "valid", v |-> Str(<<"yes">>)]>>
EdgeRows == {RowBlank, RowEmptyNamed, RowShadow}

RECURSIVE SeqsUpTo(_, _)
SeqsUpTo(S, n) ==
  IF n = 0 THEN {<<>>}
  ELSE LET shorter == SeqsUpTo(S, n - 1)
       IN  shorter \cup {Append(q, x) : q \in {p \in shorter : Len(p) = n - 1}, x \in S}

\* What readEmailsFromXLSX can return.
Inputs == SeqsUpTo(SampleRows, MaxRows) \cup {<<row>> : row \in EdgeRows}

\* What one call of validate() can answer.
Outcomes == {"pass", "mx", "throw"}
NotCalled == "none"

\* body.emailColumn || 'email'
EmailColumns == {"email"}

\* Whether row i of emails reaches the call of validate().
CallsChain(emails, emailColumn, i) ==
  ~InvalidInput(ExtractEmail(emails[i], emailColumn))

\* The answers of validate() for a whole row sequence: one per row that
\* reaches the call.
ChainsFor(emails, emailColumn) ==
  {ch \in [1..Len(emails) -> Outcomes \cup {NotCalled}] :
     \A i \in 1..Len(emails) :
       (ch[i] = NotCalled) <=> ~CallsChain(emails, emailColumn, i)}

\* error.message of what the catch block of the handler caught.
ReadError == "cannot read file"
WriteError == "cannot write file"
CallbackError == "callback failed"
OutputMissing == "no such file or directory"

\* ------------------------------------------------------------------ state
InitRun ==
  [pc |-> "idle", session |-> NoSession, emailColumn |-> "email",
   emails |-> <<>>, chain |-> <<>>, i |-> 1, results |-> <<>>,
   stats |-> ZeroStats, readOk |-> TRUE, writeOk |-> TRUE, written |-> FALSE,
   upload |-> FALSE, waits |-> 0, error |-> "",
   response |-> "none", responseStats |-> ZeroStats, size |-> 0]

Init ==
  /\ sseConnections = [s \in Sessions |-> NoConn]
  /\ channels = <<>>
  /\ run = [r \in Runs |-> InitRun]
  /\ active = NoRun

\* Whether the run's request carried a session id.
HasSession(r) == run[r].session # NoSession

\* The run's synchronous code is executing at pc.
At(r, pc) == active = r /\ run[r].pc = pc

\* The run is suspended at an await, at pc, and no callback is executing.
Suspended(r, pc) == active = NoRun /\ run[r].pc = pc

\* ---------------------------------------- GET /api/validate-emails-stream
\* A subscriber connects with ?session=sessionId.
Register(sessionId) ==
  /\ active = NoRun
  /\ sessionId # NoSession
  /\ Len(channels) < MaxChannels
  /\ channels' = Append(channels, NewChannel(sessionId))
  /\ sseConnections' = [sseConnections EXCEPT ![sessionId] = Len(channels) + 1]
  /\ UNCHANGED <<run, active>>

\* Mutant: the 'close' handler ends the response and keeps the entry.
OnCloseKeepsEntry(c) ==
  /\ active = NoRun
  /\ c \in 1..Len(channels)
  /\ ~channels[c].closed
  /\ channels' = [End(channels, c) EXCEPT ![c].closed = TRUE]
  /\ UNCHANGED <<sseConnections, run, active>>

\* req.on('close'): the handler registered for channel c runs.
OnClose(c) ==
  /\ active = NoRun
  /\ c \in 1..Len(channels)
  /\ ~channels[c].closed
  /\ sseConnections' = [sseConnections EXCEPT ![channels[c].session] = NoConn]
  /\ channels' = [End(channels, c) EXCEPT ![c].closed = TRUE]
  /\ UNCHANGED <<run, active>>

\* ------------------------------------------- POST /api/validate-emails
Update(r, rec) == run' = [run EXCEPT ![r] = rec]

\* The result of sendSSEMessage(sessionId, data) called by run r now.
Sent(r, data, writeThrows) ==
  SendSSEMessage(sseConnections, channels, run[r].session, data, writeThrows)

\* The upload was stored and the handler starts: it reads the form fields
\* and, when a session id came without a registered connection, waits 500 ms.
Upload(r, sessionId, emailColumn) ==
  /\ active = NoRun
  /\ run[r].pc = "idle"
  /\ \A q \in Runs : q < r => run[q].pc # "idle"
  /\ LET waits == sessionId # NoSession /\ sseConnections[sessionId] = NoConn
     IN  /\ Update(r, [run[r] EXCEPT !.session = sessionId,
                                     !.emailColumn = emailColumn,
                                     !.upload = TRUE,
                                     !.waits = IF waits THEN 1 ELSE 0,
                                     !.pc = IF waits THEN "wait" ELSE "process"])
         /\ active' = IF waits THEN NoRun ELSE r
  /\ UNCHANGED <<sseConnections, channels>>

\* Mutant: the handler waits again for as long as no subscriber is registered.
TimerFiresPolls(r) ==
  /\ Suspended(r, "wait")
  /\ IF sseConnections[run[r].session] = NoConn
     THEN /\ Update(r, [run[r] EXCEPT !.waits = IF @ < 2 THEN @ + 1 ELSE @])
          /\ UNCHANGED active
     ELSE /\ Update(r, [run[r] EXCEPT !.pc = "process"])
          /\ active' = r
  /\ UNCHANGED <<sseConnections, channels>>

\* setTimeout(resolve, 500) fires.
TimerFires(r) ==
  /\ Suspended(r, "wait")
  /\ Update(r, [run[r] EXCEPT !.pc = "process"])
  /\ active' = r
  /\ UNCHANGED <<sseConnections, channels>>

\* processXLSXFileWithSSE: readEmailsFromXLSX(inputPath).
ReadFileSSE(r) ==
  /\ At(r, "process")
  /\ HasSession(r)
  /\ \E readOk \in BOOLEAN, emails \in Inputs :
       /\ readOk \/ emails = <<>>
       /\ Update(r, [run[r] EXCEPT
            !.readOk = readOk,
            !.emails = emails,
            !.chain = [i \in 1..Len(emails) |-> NotCalled],
            !.error = IF readOk THEN @ ELSE ReadError,
            !.pc = IF ~readOk THEN "catch"
                   ELSE IF Len(emails) = 0 THEN "sendEmpty" ELSE "sendStart"])
  /\ UNCHANGED <<sseConnections, channels, active>>

\* Mutant: an empty file is announced with a start event of zero rows.
SendEmptyAsStart(r, writeThrows) ==
  /\ At(r, "sendEmpty")
  /\ LET m == Sent(r, StartEvent(0), writeThrows)
     IN  /\ sseConnections' = m.conns
         /\ channels' = m.chans
         /\ Update(r, [run[r] EXCEPT !.stats = ZeroStats, !.pc = "cleanup"])
  /\ UNCHANGED active

\* if (emails.length === 0) { sendSSE({ type: 'error', ... }); return zeros }
SendEmpty(r, writeThrows) ==
  /\ At(r, "sendEmpty")
  /\ LET m == Sent(r, ErrorEvent("No emails found in the file"), writeThrows)
     IN  /\ sseConnections' = m.conns
         /\ channels' = m.chans
         /\ Update(r, [run[r] EXCEPT
              !.stats = ZeroStats,
              !.error = IF m.threw THEN CallbackError ELSE @,
              !.pc = IF m.threw THEN "catch" ELSE "cleanup"])
  /\ UNCHANGED active

\* Mutant: the start event is never sent.
SendStartOmitted(r, writeThrows) ==
  /\ At(r, "sendStart")
  /\ writeThrows \in BOOLEAN
  /\ Update(r, [run[r] EXCEPT !.i = 1, !.pc = "loop"])
  /\ UNCHANGED <<sseConnections, channels, active>>

\* sendSSE({ type: 'start', total: emails.length })
SendStart(r, writeThrows) ==
  /\ At(r, "sendStart")
  /\ LET m == Sent(r, StartEvent(Len(run[r].emails)), writeThrows)
     IN  /\ sseConnections' = m.conns
         /\ channels' = m.chans
         /\ Update(r, [run[r] EXCEPT
              !.i = 1,
              !.error = IF m.threw THEN CallbackError ELSE @,
              !.pc = IF m.threw THEN "catch" ELSE "loop"])
  /\ UNCHANGED active

\* validateEmailsWithSSE: the head of the for loop, up to the branch on the
\* extracted address; a row with a string address suspends the run in
\* await validate(...).
LoopTop(r) ==
  /\ At(r, "loop")
  /\ LET emails == run[r].emails
         i == run[r].i
     IN  IF i > Len(emails)
         THEN /\ Update(r, [run[r] EXCEPT !.pc = "write"])
              /\ UNCHANGED active
         ELSE IF InvalidInput(ExtractEmail(emails[i], run[r].emailColumn))
         THEN /\ Update(r, [run[r] EXCEPT !.pc = "invalidRow"])
              /\ UNCHANGED active
         ELSE /\ Update(r, [run[r] EXCEPT !.pc = "await"])
              /\ active' = NoRun
  /\ UNCHANGED <<sseConnections, channels>>

\* The invalid-input branch: push the result, call onEmailValidated, continue.
\* The branch is outside the try block: what the callback throws leaves
\* validateEmailsWithSSE.
InvalidRow(r, writeThrows) ==
  /\ At(r, "invalidRow")
  /\ LET row == run[r].emails[run[r].i]
         email == ExtractEmail(row, run[r].emailColumn)
         m == Sent(r, EmailEvent(Or(email, Str(<<>>)), FALSE,
                                 Str(<<"Invalid email format">>)), writeThrows)
     IN  /\ sseConnections' = m.conns
         /\ channels' = m.chans
         /\ Update(r, [run[r] EXCEPT
              !.results = Append(@, SSEInvalidInputResult(row, email)),
              !.i = IF m.threw THEN @ ELSE @ + 1,
              !.error = IF m.threw THEN CallbackError ELSE @,
              !.pc = IF m.threw THEN "catch" ELSE "loop"])
  /\ UNCHANGED active

\* Mutant: no catch block around validate(): its rejection leaves
\* validateEmailsWithSSE and reaches the handler.
ValidateSettlesNoCatch(r, out) ==
  /\ Suspended(r, "await")
  /\ LET row == run[r].emails[run[r].i]
         emailToValidate == Trim(ExtractEmail(row, run[r].emailColumn))
     IN  Update(r, [run[r] EXCEPT
           !.chain[run[r].i] = out,
           !.results = IF out = "throw" THEN @
                       ELSE Append(@, SSEValidatedResult(row, emailToValidate,
                                                         ChainOutput(out))),
           !.error = IF out = "throw" THEN ChainErrorMessage ELSE @,
           !.pc = IF out = "throw" THEN "catch" ELSE "callbackOk"])
  /\ active' = r
  /\ UNCHANGED <<sseConnections, channels>>

\* await validate(...) settles with `out`: the result is pushed in the try
\* block, or, when validate() rejected, in the catch block.
ValidateSettles(r, out) ==
  /\ Suspended(r, "await")
  /\ LET row == run[r].emails[run[r].i]
         emailToValidate == Trim(ExtractEmail(row, run[r].emailColumn))
     IN  Update(r, [run[r] EXCEPT
           !.chain[run[r].i] = out,
           !.results = Append(@,
              IF out = "throw"
              THEN SSEErrorResult(row, emailToValidate, ChainErrorMessage)
              ELSE SSEValidatedResult(row, emailToValidate, ChainOutput(out))),
           !.pc = IF out = "throw" THEN "callbackError" ELSE "callbackOk"])
  /\ active' = r
  /\ UNCHANGED <<sseConnections, channels>>

\* onEmailValidated(emailToValidate, isValid, validationResult.reason) in the
\* try block: what it throws is caught by the catch block, which pushes an
\* error result.
CallbackOk(r, writeThrows) ==
  /\ At(r, "callbackOk")
  /\ LET row == run[r].emails[run[r].i]
         emailToValidate == Trim(ExtractEmail(row, run[r].emailColumn))
         validationResult == ChainOutput(run[r].chain[run[r].i])
         m == Sent(r, EmailEvent(emailToValidate, validationResult.valid,
                                 validationResult.reason), writeThrows)
     IN  /\ sseConnections' = m.conns
         /\ channels' = m.chans
         /\ Update(r, [run[r] EXCEPT
              !.results = IF m.threw
                          THEN Append(@, SSEErrorResult(row, emailToValidate,
                                                        CallbackError))
                          ELSE @,
              !.i = IF m.threw THEN @ ELSE @ + 1,
              !.pc = IF m.threw THEN "callbackError" ELSE "loop"])
  /\ UNCHANGED active

\* Mutant: the catch block pushes the error result and publishes nothing.
CallbackErrSilent(r, writeThrows) ==
  /\ At(r, "callbackError")
  /\ writeThrows \in BOOLEAN
  /\ Update(r, [run[r] EXCEPT !.i = @ + 1, !.pc = "loop"])
  /\ UNCHANGED <<sseConnections, channels, active>>

\* onEmailValidated(emailToValidate, false, `Validation error: ...`) in the
\* catch block: what it throws leaves validateEmailsWithSSE.
CallbackErr(r, writeThrows) ==
  /\ At(r, "callbackError")
  /\ LET res == run[r].results[Len(run[r].results)]
         m == Sent(r, EmailEvent(Get(res, "email"), FALSE, Get(res, "reason")), writeThrows)
     IN  /\ sseConnections' = m.conns
         /\ channels' = m.chans
         /\ Update(r, [run[r] EXCEPT
              !.i = IF m.threw THEN @ ELSE @ + 1,
              !.error = IF m.threw THEN CallbackError ELSE @,
              !.pc = IF m.threw THEN "catch" ELSE "loop"])
  /\ UNCHANGED active

\* processXLSXFileWithSSE after the loop: count, writeResultsToXLSX, return.
WriteFileSSE(r) ==
  /\ At(r, "write")
  /\ \E writeOk \in BOOLEAN :
       Update(r, [run[r] EXCEPT
         !.writeOk = writeOk,
         !.written = writeOk,
         !.stats = IF writeOk THEN StatsOf(run[r].results) ELSE @,
         !.error = IF writeOk THEN @ ELSE WriteError,
         !.pc = IF writeOk THEN "cleanup" ELSE "catch"])
  /\ UNCHANGED <<sseConnections, channels, active>>

\* processXLSXFile (no session id): readEmailsFromXLSX, then the call of
\* validateEmails, which suspends the run when some row reaches validate().
Yields(r) ==
  /\ run[r].readOk
  /\ \E i \in 1..Len(run[r].emails) : CallsChain(run[r].emails, run[r].emailColumn, i)

ReadFile(r) ==
  /\ At(r, "process")
  /\ ~HasSession(r)
  /\ \E readOk \in BOOLEAN, emails \in Inputs :
       /\ readOk \/ emails = <<>>
       /\ LET rec == [run[r] EXCEPT !.readOk = readOk, !.emails = emails,
                                    !.pc = "validate"]
              yields == readOk /\ \E i \in 1..Len(emails) :
                                    CallsChain(emails, rec.emailColumn, i)
          IN  /\ Update(r, rec)
              /\ active' = IF yields THEN NoRun ELSE r
  /\ UNCHANGED <<sseConnections, channels>>

\* The rest of processXLSXFile: validate() answers `chain` for the rows,
\* the results are counted and written, and the stats are returned or the
\* error is thrown to the handler.
FinishFile(r) ==
  /\ run[r].pc = "validate"
  /\ active = IF Yields(r) THEN NoRun ELSE r
  /\ \E chain \in ChainsFor(run[r].emails, run[r].emailColumn), writeOk \in BOOLEAN :
       /\ (~run[r].readOk \/ Len(run[r].emails) = 0) => writeOk
       /\ LET out == ProcessXLSXFile(run[r].readOk, run[r].emails,
                                     run[r].emailColumn, chain, writeOk)
          IN  Update(r, [run[r] EXCEPT
                !.chain = chain,
                !.writeOk = writeOk,
                !.results = out.results,
                !.stats = out.stats,
                !.written = out.written,
                !.error = IF ~out.threw THEN @
                          ELSE IF run[r].readOk THEN WriteError ELSE ReadError,
                !.pc = IF out.threw THEN "catch" ELSE "cleanup"])
  /\ active' = r
  /\ UNCHANGED <<sseConnections, channels>>

\* fs.unlinkSync(inputPath)
Cleanup(r) ==
  /\ At(r, "cleanup")
  /\ Update(r, [run[r] EXCEPT
       !.upload = FALSE,
       !.pc = IF HasSession(r) THEN "sendComplete" ELSE "respond"])
  /\ UNCHANGED <<sseConnections, channels, active>>

\* Mutant: the handler closes the session without the complete event.
SendCompleteOmitted(r, writeThrows) ==
  /\ At(r, "sendComplete")
  /\ writeThrows \in BOOLEAN
  /\ Update(r, [run[r] EXCEPT !.pc = "close"])
  /\ UNCHANGED <<sseConnections, channels, active>>

\* sendSSEMessage(sessionId, { type: 'complete', stats, downloadUrl, filename })
SendComplete(r, writeThrows) ==
  /\ At(r, "sendComplete")
  /\ LET m == Sent(r, CompleteEvent(run[r].stats, r), writeThrows)
     IN  /\ sseConnections' = m.conns
         /\ channels' = m.chans
         /\ Update(r, [run[r] EXCEPT
              !.error = IF m.threw THEN CallbackError ELSE @,
              !.pc = IF m.threw THEN "catch" ELSE "close"])
  /\ UNCHANGED active

\* Mutant: the success path answers without closing the session.
CloseSessionSkipped(r) ==
  /\ At(r, "close")
  /\ Update(r, [run[r] EXCEPT !.pc = "respond"])
  /\ UNCHANGED <<sseConnections, channels, active>>

\* Close SSE connection (the try block).
CloseSession(r) ==
  /\ At(r, "close")
  /\ LET m == EndAndDelete(sseConnections, channels, run[r].session)
     IN  /\ sseConnections' = m.conns
         /\ channels' = m.chans
  /\ Update(r, [run[r] EXCEPT !.pc = "respond"])
  /\ UNCHANGED active

\* res.json({ success: true, stats, downloadUrl, filename, ... })
Respond(r) ==
  /\ At(r, "respond")
  /\ Update(r, [run[r] EXCEPT !.response = "ok", !.responseStats = run[r].stats,
                              !.pc = "done"])
  /\ active' = NoRun
  /\ UNCHANGED <<sseConnections, channels>>

\* Mutant: the catch block closes the session without publishing the error.
SendErrorOmitted(r, writeThrows) ==
  /\ At(r, "catch")
  /\ writeThrows \in BOOLEAN
  /\ Update(r, [run[r] EXCEPT
       !.pc = IF HasSession(r) THEN "catchClose" ELSE "catchCleanup"])
  /\ UNCHANGED <<sseConnections, channels, active>>

\* The catch block: sendSSEMessage(sessionId, { type: 'error', message }) when
\* the request carried a session id.
SendError(r, writeThrows) ==
  /\ At(r, "catch")
  /\ LET m == IF HasSession(r) THEN Sent(r, ErrorEvent(run[r].error), writeThrows)
              ELSE [conns |-> sseConnections, chans |-> channels, threw |-> FALSE]
     IN  /\ sseConnections' = m.conns
         /\ channels' = m.chans
         /\ Update(r, [run[r] EXCEPT
              !.pc = IF m.threw THEN "crashed"
                     ELSE IF HasSession(r) THEN "catchClose" ELSE "catchCleanup"])
         /\ active' = IF m.threw THEN NoRun ELSE active

\* Mutant: the catch block ends the connection and keeps its registry entry.
CatchCloseKeepsEntry(r) ==
  /\ At(r, "catchClose")
  /\ LET m == EndWithoutDelete(sseConnections, channels, run[r].session)
     IN  /\ sseConnections' = m.conns
         /\ channels' = m.chans
  /\ Update(r, [run[r] EXCEPT !.pc = "catchCleanup"])
  /\ UNCHANGED active

\* Close SSE connection (the catch block).
CatchClose(r) ==
  /\ At(r, "catchClose")
  /\ LET m == EndAndDelete(sseConnections, channels, run[r].session)
     IN  /\ sseConnections' = m.conns
         /\ channels' = m.chans
  /\ Update(r, [run[r] EXCEPT !.pc = "catchCleanup"])
  /\ UNCHANGED active

\* if (req.file && fs.existsSync(req.file.path)) fs.unlinkSync(req.file.path)
CatchCleanup(r) ==
  /\ At(r, "catchCleanup")
  /\ Update(r, [run[r] EXCEPT !.upload = FALSE, !.pc = "respondError"])
  /\ UNCHANGED <<sseConnections, channels, active>>

\* res.status(500).json({ error: 'Failed to process file', message })
RespondError(r) ==
  /\ At(r, "respondError")
  /\ Update(r, [run[r] EXCEPT !.response = "error", !.pc = "done"])
  /\ active' = NoRun
  /\ UNCHANGED <<sseConnections, channels>>

\* ---------------------------------------------------------- specification
\* The steps of run r after its request arrived; W holds the outcomes write()
\* can have on the subscriber's channel (TRUE: it throws).
RunStepW(r, W) ==
  \/ TimerFires(r)
  \/ ReadFileSSE(r)
  \/ \E writeThrows \in W : SendEmpty(r, writeThrows)
  \/ \E writeThrows \in W : SendStart(r, writeThrows)
  \/ LoopTop(r)
  \/ \E writeThrows \in W : InvalidRow(r, writeThrows)
  \/ \E out \in Outcomes : ValidateSettles(r, out)
  \/ \E writeThrows \in W : CallbackOk(r, writeThrows)
  \/ \E writeThrows \in W : CallbackErr(r, writeThrows)
  \/ WriteFileSSE(r)
  \/ ReadFile(r)
  \/ FinishFile(r)
  \/ Cleanup(r)
  \/ \E writeThrows \in W : SendComplete(r, writeThrows)
  \/ CloseSession(r)
  \/ Respond(r)
  \/ \E writeThrows \in W : SendError(r, writeThrows)
  \/ CatchClose(r)
  \/ CatchCleanup(r)
  \/ RespondError(r)

RunStep(r) == RunStepW(r, BOOLEAN)

\* What the clients do: subscribers connect and disconnect, files are uploaded.
Connects == \E s \in Sessions : Register(s)
Disconnects == \E c \in 1..MaxChannels : OnClose(c)
Uploads ==
  \E r \in Runs, s \in Sessions \cup {NoSession}, col \in EmailColumns :
    Upload(r, s, col)

Next ==
  \/ Connects
  \/ Disconnects
  \/ Uploads
  \/ \E r \in Runs : RunStep(r)

Spec == Init /\ [][Next]_vars

\* The same server with subscribers whose channel never fails a write.
ReliableNext ==
  \/ Connects
  \/ Disconnects
  \/ Uploads
  \/ \E r \in Runs : RunStepW(r, {FALSE})

ReliableSpec == Init /\ [][ReliableNext]_vars

\* A step of run r when its upload carried a session id.
SessionStep(r) == HasSession(r) /\ RunStep(r)

\* The server when no subscriber ever connects.  Timers fire, validate()
\* settles (every network stage has its own timeout) and synchronous code
\* runs on: a started run with a session id keeps stepping.
LonelyNext ==
  \/ Uploads
  \/ \E r \in Runs : RunStep(r)

LonelySpec ==
  Init /\ [][LonelyNext]_vars /\ \A r \in Runs : WF_vars(SessionStep(r))

\* ------------------------------------------------------------ properties
\* processXLSXFile / processXLSXFileWithSSE has returned its stats to the
\* handler.
Returned(r) ==
  \/ run[r].pc \in {"cleanup", "sendComplete", "close", "respond"}
  \/ run[r].response = "ok"

\* The handler has answered the upload request.
Responded(r) == run[r].response # "none"

RowIndexes(r) == 1..Len(run[r].emails)

\* What processXLSXFile makes of the run's file, given the same outcomes of
\* readFile, validate() and writeFile.
Reference(r) ==
  ProcessXLSXFile(run[r].readOk, run[r].emails, run[r].emailColumn,
                  run[r].chain, run[r].writeOk)

\* The channels opened for session s.
ChannelsOf(s) == {c \in 1..Len(channels) : channels[c].session = s}

\* C1: for a non-empty row sequence and every mix of per-row outcomes, the
\* stats returned by processXLSXFile and processXLSXFileWithSSE have
\* total = number of input rows and valid + invalid = total; valid counts the
\* rows the chain passed, and every other row (chain said invalid, chain
\* threw, address missing or not a string) is counted in invalid.
C1_StatsCountEveryRow ==
  \A r \in Runs :
    (Returned(r) /\ Len(run[r].emails) > 0) =>
      LET passed == {i \in RowIndexes(r) : run[r].chain[i] = "pass"}
      IN  /\ run[r].stats.total = Len(run[r].emails)
          /\ run[r].stats.valid + run[r].stats.invalid = run[r].stats.total
          /\ run[r].stats.valid = Cardinality(passed)
          /\ run[r].stats.invalid = Len(run[r].emails) - Cardinality(passed)

\* A run with a session returned the stats of two rows: one without an
\* address, one for which validate() threw.
C1_Witness ==
  \E r \in Runs :
    /\ Returned(r)
    /\ HasSession(r)
    /\ Len(run[r].emails) = 2
    /\ \E i \in RowIndexes(r) : run[r].chain[i] = NotCalled
    /\ \E i \in RowIndexes(r) : run[r].chain[i] = "throw"

\* The email event of row i of run r, from the input row and what validate()
\* answered for it.
EmailEventOfRow(r, i) ==
  LET res == ValidateRow(run[r].emails[i], run[r].emailColumn, run[r].chain[i])
  IN  EmailEvent(Get(res, "email"), Truthy(Get(res, "valid")), Get(res, "reason"))

\* The terminal event of a run that has answered.
TerminalEventOf(r) ==
  IF run[r].response = "ok" THEN CompleteEvent(run[r].responseStats, r)
  ELSE ErrorEvent(run[r].error)

\* Channel c is the one subscriber session s ever had, it was registered when
\* run r started, and its 'close' handler has not run.
SoleSubscriber(r, c) ==
  /\ HasSession(r)
  /\ ChannelsOf(run[r].session) = {c}
  /\ run[r].waits = 0
  /\ ~channels[c].closed

\* C2: when a run over n >= 1 rows has answered, a subscriber of its session
\* that was registered before the run started and is still connected has
\* received, after Connected, exactly Start, then the email events of rows
\* 1..n in row order, then one terminal event.
C2_EventOrder ==
  \A r \in Runs, c \in 1..Len(channels) :
    (Responded(r) /\ Len(run[r].emails) >= 1 /\ SoleSubscriber(r, c)) =>
      channels[c].log =
        <<ConnectedEvent(run[r].session), StartEvent(Len(run[r].emails))>>
        \o [i \in RowIndexes(r) |-> EmailEventOfRow(r, i)]
        \o <<TerminalEventOf(r)>>

\* A run over two different rows has answered its connected subscriber.
C2_Witness ==
  \E r \in Runs, c \in 1..Len(channels) :
    /\ Responded(r)
    /\ SoleSubscriber(r, c)
    /\ Len(run[r].emails) = 2
    /\ run[r].emails[1] # run[r].emails[2]
    /\ run[r].response = "ok"

\* The positions of the terminal events in the log of channel c.
Terminals(c) == {i \in 1..Len(channels[c].log) : IsTerminal(channels[c].log[i])}

\* C3: when a run with a session has answered (completed or failed, an empty
\* file and a failed read or write included), its subscriber's channel holds
\* exactly one terminal event, that event is the last one delivered, and the
\* channel was ended.
C3_OneTerminalEvent ==
  \A r \in Runs, c \in 1..Len(channels) :
    (Responded(r) /\ SoleSubscriber(r, c)) =>
      /\ Cardinality(Terminals(c)) = 1
      /\ Terminals(c) = {Len(channels[c].log)}
      /\ channels[c].ends >= 1

\* C4: a subscriber connecting under a session id that has a registry entry
\* does not replace it: the entry still refers to the first channel.
C4_DuplicateSessionRejected ==
  [][\A s \in Sessions :
       (/\ sseConnections[s] # NoConn
        /\ Len(channels') = Len(channels) + 1
        /\ channels'[Len(channels')].session = s)
       => sseConnections'[s] = sseConnections[s]]_vars

\* C5: a run with a session attached answers as the run without a session
\* does for the same file and the same outcomes of readFile, validate() and
\* writeFile: the same success or failure, the same result rows, the same
\* stats, whatever happened to the subscriber.
C5_SameOutcomeWithSession ==
  \A r \in Runs :
    (HasSession(r) /\ Responded(r)) =>
      LET ref == Reference(r)
      IN  /\ (run[r].response = "ok") = ~ref.threw
          /\ run[r].results = ref.results
          /\ run[r].response = "ok" => run[r].responseStats = ref.stats

\* A run over two rows answered although its subscriber got the start event
\* and never the complete event.
C5_Witness ==
  \E r \in Runs, c \in 1..Len(channels) :
    /\ HasSession(r)
    /\ run[r].response = "ok"
    /\ Len(run[r].emails) = 2
    /\ channels[c].session = run[r].session
    /\ \E i \in 1..Len(channels[c].log) : channels[c].log[i].type = "start"
    /\ Terminals(c) = {}

\* C6: a run whose session never has a subscriber waits once, for one timer,
\* before its first publish, then terminates and answers its caller as the
\* run without a session does: the same success or failure, the same stats.
C6_RunWithoutSubscriberAnswers ==
  /\ [](\A r \in Runs :
          /\ run[r].waits <= 1
          /\ (HasSession(r) /\ Responded(r)) =>
               /\ run[r].waits = 1
               /\ (run[r].response = "ok") = ~Reference(r).threw
               /\ run[r].response = "ok" => run[r].responseStats = Reference(r).stats)
  /\ \A r \in Runs : (run[r].pc = "wait") ~> Responded(r)

\* A run with a session and no subscriber answered with the stats of two rows.
C6_Witness ==
  \E r \in Runs :
    /\ HasSession(r)
    /\ channels = <<>>
    /\ run[r].waits = 1
    /\ run[r].response = "ok"
    /\ run[r].responseStats.total = 2

\* The 'close' handler of channel c runs in this step.
ClosesNow(c) == ~channels[c].closed /\ channels'[c].closed

LogsUnchanged ==
  \A c \in 1..Len(channels) : channels'[c].log = channels[c].log

\* Every subscriber session s ever had has disconnected.
AllGone(s) ==
  /\ ChannelsOf(s) # {}
  /\ \A c \in ChannelsOf(s) : channels[c].closed

\* C7: when a subscriber disconnects, the registry entry of its session is
\* removed; nothing is written to a disconnected channel; while every
\* subscriber of the session is gone the run's publishes write to no channel
\* and raise nothing; and the run still produces one result per row and
\* answers with the stats of all of them.
C7_DisconnectLeavesRunAlone ==
  /\ [][/\ \A c \in 1..Len(channels) :
             ClosesNow(c) => sseConnections'[channels[c].session] = NoConn
        /\ \A c \in 1..Len(channels) :
             channels[c].closed => channels'[c] = channels[c]
        /\ \A r \in Runs :
             (active = r /\ HasSession(r) /\ AllGone(run[r].session)) =>
               /\ channels' = channels
               /\ run'[r].error # CallbackError
               /\ run'[r].pc # "crashed"]_vars
  /\ [](\A r \in Runs :
          (run[r].response = "ok" /\ HasSession(r)) =>
            /\ Len(run[r].results) = Len(run[r].emails)
            /\ run[r].responseStats = StatsOf(run[r].results)
            /\ run[r].responseStats.total = Len(run[r].emails))

\* The only subscriber disconnected after the start event and before the end
\* of a run over two rows, and the run answered.
C7_Witness ==
  \E r \in Runs, c \in 1..Len(channels) :
    /\ HasSession(r)
    /\ ChannelsOf(run[r].session) = {c}
    /\ channels[c].closed
    /\ \E i \in 1..Len(channels[c].log) : channels[c].log[i].type = "start"
    /\ Terminals(c) = {}
    /\ run[r].response = "ok"
    /\ run[r].responseStats.total = 2

\* The places of the handler and of processXLSXFileWithSSE that publish.
PublishPcs ==
  {"sendEmpty", "sendStart", "invalidRow", "callbackOk", "callbackError",
   "sendComplete", "catch"}

\* Where the run goes on when the publish at pc returns without throwing.
AfterPublish(pc) ==
  CASE pc = "sendEmpty" -> "cleanup"
    [] pc = "sendComplete" -> "close"
    [] pc = "catch" -> "catchClose"
    [] OTHER -> "loop"

\* Run r calls sendSSEMessage in this step.
Publishes(r) == active = r /\ HasSession(r) /\ run[r].pc \in PublishPcs

\* C8: sendSSEMessage for a session without a registry entry changes no
\* registry entry, writes to no channel and does not throw.
C8_PublishWithoutEntryIsNoOp ==
  [][\A r \in Runs :
       (Publishes(r) /\ sseConnections[run[r].session] = NoConn) =>
         /\ sseConnections' = sseConnections
         /\ channels' = channels
         /\ run'[r].pc = AfterPublish(run[r].pc)
         /\ run'[r].error = run[r].error]_vars

\* A run with a session answered for two rows and no subscriber ever
\* connected: each of its publishes found no entry.
C8_Witness ==
  \E r \in Runs :
    /\ HasSession(r)
    /\ channels = <<>>
    /\ Len(run[r].results) = 2
    /\ run[r].response = "ok"

\* C9: a publish whose write to the registered channel fails (nothing is
\* delivered) does not raise: the run goes on as after a delivered event, and
\* the session's registry entry is removed, no channel being written to.
C9_FailedWriteDeregisters ==
  [][\A r \in Runs :
       (Publishes(r) /\ sseConnections[run[r].session] # NoConn) =>
         LET s == run[r].session
             c == sseConnections[s]
         IN  /\ run'[r].pc = AfterPublish(run[r].pc)
             /\ run'[r].error = run[r].error
             /\ channels'[c].log = channels[c].log =>
                  /\ sseConnections'[s] = NoConn
                  /\ channels' = channels]_vars

\* The only subscriber is still connected and was never ended, yet its entry
\* is gone after the start event: a write to it failed; the run went on and
\* answered for two rows.
C9_Witness ==
  \E r \in Runs, c \in 1..Len(channels) :
    /\ HasSession(r)
    /\ Len(channels) = 1
    /\ ~channels[c].closed
    /\ channels[c].ends = 0
    /\ sseConnections[run[r].session] = NoConn
    /\ \E i \in 1..Len(channels[c].log) : channels[c].log[i].type = "start"
    /\ run[r].response = "ok"
    /\ Len(run[r].results) = 2

\* C10: closing a session, whether by the completion path, by the error path
\* or by the subscriber's 'close' handler, and whether or not it was closed
\* before, raises nothing, leaves the registry without an entry for the
\* session and delivers no event.
C10_CloseIsIdempotent ==
  [][/\ \A r \in Runs :
          (active = r /\ run[r].pc \in {"close", "catchClose"}) =>
            /\ sseConnections'[run[r].session] = NoConn
            /\ LogsUnchanged
            /\ run'[r].pc = IF run[r].pc = "close" THEN "respond" ELSE "catchCleanup"
     /\ \A c \in 1..Len(channels) :
          ClosesNow(c) =>
            /\ sseConnections'[channels[c].session] = NoConn
            /\ LogsUnchanged
            /\ run' = run]_vars

\* A channel was ended twice: by the run's close and by its 'close' handler.
C10_Witness ==
  \E c \in 1..Len(channels) :
    /\ channels[c].ends = 2
    /\ Cardinality(Terminals(c)) = 1

\* The file was read and its sheet holds no row.
EmptyFile(r) == Returned(r) /\ run[r].readOk /\ Len(run[r].emails) = 0

\* An event an empty run may publish: an error, or a complete with zero stats.
EmptyRunEvent(e) ==
  \/ e.type = "error"
  \/ e.type = "complete" /\ e.stats = ZeroStats

\* C11: a run over an empty row sequence returns {total: 0, valid: 0,
\* invalid: 0} and no result, is never suspended in a call of validate(), and
\* every event it publishes on its session is an error or a complete with
\* zero stats (no start, no email); a connected subscriber gets at least one.
C11_EmptyRunReturnsZeroStats ==
  \A r \in Runs :
    /\ (run[r].pc \in {"await", "validate"} /\ active = NoRun) =>
         Len(run[r].emails) > 0
    /\ EmptyFile(r) =>
         /\ run[r].stats = ZeroStats
         /\ run[r].results = <<>>
         /\ run[r].chain = <<>>
         /\ run[r].response # "error"
         /\ run[r].response = "ok" => run[r].responseStats = ZeroStats
         /\ \A c \in ChannelsOf(run[r].session) :
              /\ \A k \in 2..Len(channels[c].log) : EmptyRunEvent(channels[c].log[k])
              /\ (Responded(r) /\ SoleSubscriber(r, c)) => Len(channels[c].log) >= 2

\* A run with a connected subscriber answered for an empty file.
C11_Witness ==
  \E r \in Runs, c \in 1..Len(channels) :
    /\ EmptyFile(r)
    /\ Responded(r)
    /\ SoleSubscriber(r, c)
    /\ run[r].responseStats = ZeroStats

\* C12: when validate() throws for row i, row i gets one result with
\* valid = false and the reason `Validation error: <message>`, the results
\* stay aligned with the rows, the loop reaches the last row, and the
\* exception never reaches the handler: a run fails only on reading or
\* writing its file.
C12_ChainThrowIsContained ==
  \A r \in Runs :
    /\ Len(run[r].results) <= Len(run[r].emails)
    /\ \A i \in 1..Len(run[r].chain) :
         run[r].chain[i] = "throw" =>
           /\ i <= Len(run[r].results)
           /\ Get(run[r].results[i], "valid") = Bool(FALSE)
           /\ Get(run[r].results[i], "reason") =
                Str(<<"Validation error: ", ChainErrorMessage>>)
    /\ Returned(r) => Len(run[r].results) = Len(run[r].emails)
    /\ run[r].error \in {"", ReadError, WriteError}
    /\ run[r].response = "error" => ~(run[r].readOk /\ run[r].writeOk)

\* validate() threw for the first of two rows, passed the second, and the
\* run answered with the stats of both.
C12_Witness ==
  \E r \in Runs :
    /\ Len(run[r].emails) = 2
    /\ run[r].chain = <<"throw", "pass">>
    /\ run[r].response = "ok"
    /\ run[r].responseStats = [total |-> 2, valid |-> 1, invalid |-> 1]

\* The run's file could not be read or its output could not be written.
RunFailed(r) == ~run[r].readOk \/ ~run[r].writeOk

\* C13: a run whose file cannot be read or written answers its caller once,
\* with an error and no stats, and nothing was written; when a session is
\* attached, its connected subscriber got the error event with the message as
\* the last event, the channel was ended and the registry entry removed.
C13_RunFailureIsReported ==
  /\ [](\A r \in Runs :
          /\ (Responded(r) /\ RunFailed(r)) =>
               /\ run[r].response = "error"
               /\ run[r].error = IF run[r].readOk THEN WriteError ELSE ReadError
               /\ run[r].responseStats = InitRun.responseStats
               /\ ~run[r].written
               /\ ~run[r].upload
          /\ \A c \in 1..Len(channels) :
               (Responded(r) /\ RunFailed(r) /\ SoleSubscriber(r, c)) =>
                 /\ channels[c].log[Len(channels[c].log)] = ErrorEvent(run[r].error)
                 /\ Cardinality(Terminals(c)) = 1
                 /\ channels[c].ends >= 1
                 /\ sseConnections[run[r].session] = NoConn)
  /\ [][\A r \in Runs : Responded(r) => run'[r] = run[r]]_vars

\* A run over two rows could not write its output; its connected subscriber
\* got the error event.
C13_Witness ==
  \E r \in Runs, c \in 1..Len(channels) :
    /\ Responded(r)
    /\ SoleSubscriber(r, c)
    /\ ~run[r].writeOk
    /\ Len(run[r].results) = 2
    /\ run[r].response = "error"

\* The extracted value is missing, not a string, or the empty string.
NoUsableAddress(v) == v.t # "string" \/ v.v = <<>>

InvalidInputReason == Str(<<"Invalid email format">>)

\* C14: a row whose extracted address is missing, empty or not a string is
\* never handed to validate(): the run is not suspended for it, its result has
\* valid = false and the reason 'Invalid email format', and with a session
\* attached what is written for it is one email event with valid = false.
C14_InvalidInputSkipsChain ==
  /\ [](\A r \in Runs :
          /\ \A i \in 1..Len(run[r].results) :
               NoUsableAddress(ExtractEmail(run[r].emails[i], run[r].emailColumn)) =>
                 /\ run[r].chain[i] = NotCalled
                 /\ Get(run[r].results[i], "valid") = Bool(FALSE)
                 /\ Get(run[r].results[i], "reason") = InvalidInputReason
          /\ run[r].pc = "await" =>
               ~NoUsableAddress(ExtractEmail(run[r].emails[run[r].i],
                                             run[r].emailColumn)))
  /\ [][\A r \in Runs :
          (active = r /\ run[r].pc = "invalidRow") =>
            /\ Len(run'[r].results) = Len(run[r].results) + 1
            /\ \A c \in 1..Len(channels) :
                 channels'[c].log # channels[c].log =>
                   /\ Len(channels'[c].log) = Len(channels[c].log) + 1
                   /\ LET e == channels'[c].log[Len(channels'[c].log)]
                      IN  /\ e.type = "email"
                          /\ e.valid = FALSE
                          /\ e.reason = InvalidInputReason]_vars

\* A row with a number and a row without an address were recorded without
\* a call of validate(), and the connected subscriber got their two events.
C14_Witness ==
  \E r \in Runs, c \in 1..Len(channels) :
    /\ SoleSubscriber(r, c)
    /\ run[r].response = "ok"
    /\ run[r].emails = <<RowNumber, RowNoAddress>>
    /\ run[r].chain = <<NotCalled, NotCalled>>
    /\ Cardinality({k \in 1..Len(channels[c].log) :
                      channels[c].log[k].type = "email"}) = 2

\* The email validate() is called with for row i of run r.
EmailToValidate(r, i) ==
  Trim(ExtractEmail(run[r].emails[i], run[r].emailColumn))

\* C15: validate() is called with the trimmed cell value, and never with the
\* empty string: a row whose address is empty after trimming does not reach
\* the call.
C15_NoEmptyAddressInChain ==
  \A r \in Runs :
    /\ run[r].pc = "await" => EmailToValidate(r, run[r].i) # Str(<<>>)
    /\ \A i \in 1..Len(run[r].chain) :
         run[r].chain[i] # NotCalled =>
           /\ EmailToValidate(r, i) # Str(<<>>)
           /\ i <= Len(run[r].results) =>
                Get(run[r].results[i], "email") = EmailToValidate(r, i)

\* The address of a row as the column rule states it: the named column when
\* the row has it, the first field otherwise.
AddressOf(row, emailColumn) ==
  IF KeyIndex(row, emailColumn) # {} THEN Get(row, emailColumn) ELSE GetFirst(row)

\* C16: the address of a row is the value of its emailColumn whenever the row
\* has that column, and its first field only otherwise: a row reaches
\* validate() exactly when that value is a non-empty string, and the email
\* validated and recorded is that value, trimmed.
C16_NamedColumnWins ==
  \A r \in Runs :
    \A i \in 1..Len(run[r].results) :
      LET address == AddressOf(run[r].emails[i], run[r].emailColumn)
      IN  /\ (run[r].chain[i] = NotCalled) = NoUsableAddress(address)
          /\ run[r].chain[i] # NotCalled =>
               Get(run[r].results[i], "email") = Trim(address)

\* C17: every column of an input row other than the address column is in the
\* row's result under the same name with the same value, in every branch.
C17_OtherColumnsPassThrough ==
  \A r \in Runs :
    \A i \in 1..Len(run[r].results) :
      LET row == run[r].emails[i]
      IN  \A k \in 1..Len(row) :
            row[k].k # run[r].emailColumn =>
              Get(run[r].results[i], row[k].k) = row[k].v

\* C18: the results are in row order: as many as the rows once the loop has
\* ended, never more, and the i-th result is the one built from the i-th
\* input row and what validate() answered for it.
C18_ResultsInRowOrder ==
  \A r \in Runs :
    /\ Len(run[r].results) <= Len(run[r].emails)
    /\ Returned(r) => Len(run[r].results) = Len(run[r].emails)
    /\ \A i \in 1..Len(run[r].results) :
         run[r].results[i] =
           ValidateRow(run[r].emails[i], run[r].emailColumn, run[r].chain[i])

\* A run without a session returned the results of two different rows.
C18_Witness ==
  \E r \in Runs :
    /\ ~HasSession(r)
    /\ run[r].response = "ok"
    /\ Len(run[r].results) = 2
    /\ run[r].emails[1] # run[r].emails[2]
    /\ run[r].results[1] # run[r].results[2]

\* Run r answers its caller with success in this step.
AnswersOk(r) == run[r].response = "none" /\ run'[r].response = "ok"

\* C19: when a run with a session answers its caller with its stats, the one
\* subscriber of the session, if it registered at any moment before and is
\* still connected, has received as its last event one complete event with
\* those stats, whichever earlier events it missed.
C19_LateSubscriberGetsComplete ==
  [][\A r \in Runs, c \in 1..Len(channels) :
       (/\ AnswersOk(r)
        /\ HasSession(r)
        /\ ChannelsOf(run[r].session) = {c}
        /\ ~channels[c].closed) =>
         /\ channels[c].log[Len(channels[c].log)] =
              CompleteEvent(run'[r].responseStats, r)
         /\ Cardinality({k \in 1..Len(channels[c].log) :
                           channels[c].log[k].type = "complete"}) = 1]_vars

\* A subscriber that registered after the start event of a run over two rows
\* got the complete event with the stats of the answer.
C19_Witness ==
  \E r \in Runs, c \in 1..Len(channels) :
    /\ run[r].response = "ok"
    /\ run[r].waits = 1
    /\ ChannelsOf(run[r].session) = {c}
    /\ ~channels[c].closed
    /\ \A k \in 1..Len(channels[c].log) : channels[c].log[k].type # "start"
    /\ run[r].responseStats.total = 2
    /\ channels[c].log[Len(channels[c].log)] = CompleteEvent(run[r].responseStats, r)

\* Run r answers its caller in this step, with success or with an error.
Answers(r) == run[r].response = "none" /\ run'[r].response # "none"

\* C20: at the moment a run with a session answers its caller, with success
\* or with an error, the registry holds no entry for its session; and once
\* the 'close' handler of a subscriber has run, the registry holds no entry
\* for that subscriber's session.
C20_EntryReleasedAtFirstEnd ==
  [][/\ \A r \in Runs :
          (Answers(r) /\ HasSession(r)) =>
            /\ sseConnections[run[r].session] = NoConn
            /\ sseConnections'[run[r].session] = NoConn
     /\ \A c \in 1..Len(channels) :
          ClosesNow(c) => sseConnections'[channels[c].session] = NoConn]_vars

\* The run answered while its subscriber was still connected: the run's
\* close released the entry and ended the channel.
C20_Witness ==
  \E r \in Runs, c \in 1..Len(channels) :
    /\ Responded(r)
    /\ HasSession(r)
    /\ ChannelsOf(run[r].session) = {c}
    /\ ~channels[c].closed
    /\ channels[c].ends = 1
    /\ sseConnections[run[r].session] = NoConn

\* ------------------------------------------------- two runs, two sessions
\* Two upload requests in flight at the same time and two session ids.
Runs2 == {1, 2}
Sessions2 == {1, 2}

\* What readEmailsFromXLSX returns in the runs below: one row.
PairInputs == {<<RowPadded>>}

\* What validate() answers in the runs below.
PairOutcomes == {"pass"}

PairInit ==
  /\ sseConnections = [s \in Sessions2 |-> NoConn]
  /\ channels = <<>>
  /\ run = [r \in Runs2 |-> InitRun]
  /\ active = NoRun

\* A step of run r over a file that cannot be read or holds the rows of
\* PairInputs and is written back without error, with the answers of
\* PairOutcomes.
PairStep(r) ==
  /\ RunStep(r)
  /\ run'[r].emails \in PairInputs \/ run'[r].pc \in {"process", "catch"}
  /\ run'[r].writeOk
  /\ \A i \in 1..Len(run'[r].chain) :
       run'[r].chain[i] \in PairOutcomes \cup {NotCalled}

PairConnects == \E s \in Sessions2 : Register(s)
PairUploads ==
  \E r \in Runs2, s \in Sessions2, col \in EmailColumns : Upload(r, s, col)

PairNext ==
  \/ PairConnects
  \/ Disconnects
  \/ PairUploads
  \/ \E r \in Runs2 : PairStep(r)

PairSpec == PairInit /\ [][PairNext]_vars

\* Run r takes a step: every step of a run moves its program counter.
Steps(r) == run'[r] # run[r]

\* A subscriber registers under session s in this step.
RegistersNow(s) ==
  /\ Len(channels') = Len(channels) + 1
  /\ channels'[Len(channels')].session = s

\* C21: sessions are isolated.  A step of a run writes to, or ends, no other
\* channel than the one registered under the run's own session id, and the
\* registry entry of a session changes only in a registration under that
\* session, in the disconnect of a channel of that session, or in a step of
\* a run that carries that session id.
C21_SessionsIsolated ==
  [][\A s \in Sessions2 :
       /\ \A r \in Runs2, c \in 1..Len(channels) :
            Steps(r) /\ run[r].session = s /\ channels'[c] # channels[c]
              => channels[c].session = s /\ sseConnections[s] = c
       /\ sseConnections'[s] # sseConnections[s]
            => \/ RegistersNow(s)
               \/ \E c \in 1..Len(channels) :
                    ClosesNow(c) /\ channels[c].session = s
               \/ \E r \in Runs2 : Steps(r) /\ run[r].session = s]_vars

\* Two runs under different session ids are in flight and each subscriber
\* has received events of its run.
C21_Witness ==
  /\ run[1].session # run[2].session
  /\ \A r \in Runs2 :
       /\ HasSession(r)
       /\ run[r].pc \notin {"idle", "done"}
       /\ \E c \in 1..Len(channels) :
            /\ channels[c].session = run[r].session
            /\ Len(channels[c].log) > 1

\* The positions of the start events in the log of channel c.
Starts(c) == {i \in 1..Len(channels[c].log) : channels[c].log[i].type = "start"}

\* Run r is in validateEmailsWithSSE with the email event of a row yet to
\* be published.
StillPublishing(r) ==
  /\ run[r].pc \in {"loop", "invalidRow", "await", "callbackOk", "callbackError"}
  /\ run[r].i <= Len(run[r].emails)

\* A step of run r calls end() on channel c.
EndsNow(r, c) == Steps(r) /\ channels'[c].ends > channels[c].ends

\* C29: a session correlates at most one run in flight.  With two uploads
\* under one session id in flight together, the subscriber's channel holds at
\* most one start event and at most one terminal event, and no run ends the
\* channel while the other run of the session still has email events to
\* publish.
C29_OneRunPerSession ==
  /\ [](\A c \in 1..Len(channels) :
         Cardinality(Starts(c)) <= 1 /\ Cardinality(Terminals(c)) <= 1)
  /\ [][\A r \in Runs2, q \in Runs2, c \in 1..Len(channels) :
          (/\ q # r
           /\ run[q].session = channels[c].session
           /\ StillPublishing(q)) => ~EndsNow(r, c)]_vars

\* C27: the 'close' handler of a channel removes the registry entry of its
\* session only while the entry still refers to that channel: when the entry
\* refers to another channel (a later registration under the same session
\* id), the disconnect leaves the entry as it is.
C27_CloseSparesNewerSubscriber ==
  [][\A c \in 1..Len(channels) :
       (ClosesNow(c) /\ sseConnections[channels[c].session] # c)
         => sseConnections'[channels[c].session]
              = sseConnections[channels[c].session]]_vars

\* C30: no subscriber channel is left open without a registry entry that
\* points to it.  Stated for the only channel its session ever had: while
\* nobody has called end() on it, the entry of its session refers to it, so
\* that the run attached to the session ends it when it finishes.
C30_OpenChannelIsRegistered ==
  \A c \in 1..Len(channels) :
    (ChannelsOf(channels[c].session) = {c} /\ channels[c].ends = 0)
      => sseConnections[channels[c].session] = c

\* The email events delivered to channel c, in order.
EmailEvents(c) == SelectSeq(channels[c].log, LAMBDA e : e.type = "email")

\* Email event e carries the email, valid and reason of result row res.
CarriesRow(e, res) ==
  /\ e.email = Get(res, "email")
  /\ e.valid = Truthy(Get(res, "valid"))
  /\ e.reason = Get(res, "reason")

\* C25: in a run over n >= 1 rows with a session attached, whose subscriber
\* was registered before the run started and stays connected: the start
\* event carries total = n; the i-th email event carries the email, valid and
\* reason of the i-th result row, and there is never more than one email
\* event per result row; when the run has completed there is exactly one
\* email event per row, and the stats of the complete event have
\* total = n = number of email events and valid = number of email events
\* with valid = true.
C25_EventsMatchRows ==
  \A r \in Runs, c \in 1..Len(channels) :
    (SoleSubscriber(r, c) /\ Len(run[r].emails) >= 1) =>
      LET log == channels[c].log
          n == Len(run[r].emails)
          events == EmailEvents(c)
      IN  /\ \A k \in 1..Len(log) : log[k].type = "start" => log[k].total = n
          /\ Len(events) <= Len(run[r].results)
          /\ \A i \in 1..Len(events) : CarriesRow(events[i], run[r].results[i])
          /\ run[r].response = "ok" =>
               /\ Cardinality(Starts(c)) = 1
               /\ Len(events) = n
               /\ log[Len(log)].type = "complete"
               /\ log[Len(log)].stats.total = n
               /\ log[Len(log)].stats.valid
                    = Cardinality({i \in 1..Len(events) : events[i].valid})

\* A run over two rows completed; its subscriber got an email event with
\* valid = true and one with valid = false.
C25_Witness ==
  \E r \in Runs, c \in 1..Len(channels) :
    /\ SoleSubscriber(r, c)
    /\ run[r].response = "ok"
    /\ Len(run[r].emails) = 2
    /\ \E i, j \in 1..Len(EmailEvents(c)) :
         EmailEvents(c)[i].valid /\ ~EmailEvents(c)[j].valid

\* ------------------------------------------------------ the HTTP front ends
\* limits: { fileSize: 100 * 1024 * 1024 } of the multer upload (Express
\* server, and the Vercel handler, which forwards to the same app).
fileSize == 100 * 1024 * 1024

\* const maxSize = 100 * 1024 * 1024 of the Cloudflare function.
maxSize == 100 * 1024 * 1024

\* "Maximum file size: 10MB"
DocumentedMaxSize == 10 * 1024 * 1024

\* The sizes in bytes of the uploaded files.
FileSizes ==
  {DocumentedMaxSize, DocumentedMaxSize + 1, maxSize, maxSize + 1}

\* upload.single('file') of the Express route: multer stores the upload on
\* disk and calls next(), or it fails with LIMIT_FILE_SIZE, keeps no file and
\* the middleware answers 400.
Multer(r, size) ==
  /\ active = NoRun
  /\ run[r].pc = "idle"
  /\ ~run[r].upload
  /\ run[r].response = "none"
  /\ IF size > fileSize
     THEN Update(r, [run[r] EXCEPT !.size = size, !.response = "rejected",
                                   !.pc = "done"])
     ELSE Update(r, [run[r] EXCEPT !.size = size, !.upload = TRUE])
  /\ UNCHANGED <<sseConnections, channels, active>>

\* The Express handler runs on the upload multer stored.
Handler(r, sessionId, emailColumn) ==
  /\ run[r].upload
  /\ Upload(r, sessionId, emailColumn)

\* onRequestPost of the Cloudflare function, up to the call of
\* processXLSXFile: the size check answers 400, or the upload is written to
\* the temporary directory.
CfRequest(r, size, emailColumn) ==
  /\ active = NoRun
  /\ run[r].pc = "idle"
  /\ ~run[r].upload
  /\ run[r].response = "none"
  /\ IF size > maxSize
     THEN Update(r, [run[r] EXCEPT !.size = size, !.response = "rejected",
                                   !.pc = "done"])
     ELSE Update(r, [run[r] EXCEPT !.size = size, !.upload = TRUE,
                                   !.emailColumn = emailColumn,
                                   !.pc = "cfProcess"])
  /\ UNCHANGED <<sseConnections, channels, active>>

\* The rest of onRequestPost: processXLSXFile settles; the output file is
\* read back, which throws when processXLSXFile wrote none; the upload and
\* the output are deleted and 200 is answered, or the catch block answers
\* 500.
CfSettles(r) ==
  /\ Suspended(r, "cfProcess")
  /\ \E readOk \in BOOLEAN, emails \in Inputs, writeOk \in BOOLEAN :
       /\ readOk \/ emails = <<>>
       /\ (~readOk \/ Len(emails) = 0) => writeOk
       /\ \E chain \in ChainsFor(emails, run[r].emailColumn) :
            LET out == ProcessXLSXFile(readOk, emails, run[r].emailColumn,
                                       chain, writeOk)
                failed == out.threw \/ ~out.written
            IN  Update(r, [run[r] EXCEPT
                  !.readOk = readOk, !.emails = emails, !.chain = chain,
                  !.writeOk = writeOk, !.results = out.results,
                  !.stats = out.stats,
                  !.written = IF failed THEN out.written ELSE FALSE,
                  !.upload = failed,
                  !.error = IF ~failed THEN @
                            ELSE IF ~readOk THEN ReadError
                            ELSE IF ~writeOk THEN WriteError
                            ELSE OutputMissing,
                  !.response = IF failed THEN "error" ELSE "ok",
                  !.responseStats = IF failed THEN @ ELSE out.stats,
                  !.pc = "done"])
  /\ UNCHANGED <<sseConnections, channels, active>>

\* The requests the front ends receive when no subscriber connects.
FrontNext ==
  \/ \E r \in Runs, size \in FileSizes : Multer(r, size)
  \/ \E r \in Runs, s \in Sessions \cup {NoSession}, col \in EmailColumns :
       Handler(r, s, col)
  \/ \E r \in Runs : RunStep(r)
  \/ \E r \in Runs, size \in FileSizes, col \in EmailColumns :
       CfRequest(r, size, col)
  \/ \E r \in Runs : CfSettles(r)

FrontSpec == Init /\ [][FrontNext]_vars

\* C23: once an upload request has been answered, with success or with a
\* failure, the uploaded file stored for it no longer exists, in the Express
\* server (and the Vercel handler that forwards to it) and in the
\* Cloudflare function.
C23_UploadDeletedAfterAnswer ==
  \A r \in Runs : Responded(r) => ~run[r].upload

\* The request was handed to processXLSXFile or processXLSXFileWithSSE.
Processed(r) ==
  \/ run[r].pc \notin {"idle", "done"}
  \/ run[r].response \in {"ok", "error"}

\* C24: the maximum accepted upload size is 10MB: an upload larger than that
\* is never processed and is answered with the 400 rejection.
C24_TenMegabyteLimit ==
  \A r \in Runs :
    run[r].size > DocumentedMaxSize =>
      /\ ~Processed(r)
      /\ Responded(r) => run[r].response = "rejected"

\* ------------------------------------------------ calls of the processor
\* The senderEmail argument: absent, an empty form field, an address.
SenderEmails == {Undefined, Str(<<>>), Str(<<"s">>)}

\* How the onEmailValidated callback behaves for the calls made for one row:
\* it returns, its first call throws, or every call throws.
CallbackThrows == {"never", "first", "always"}

\* Mutant: the sender is the senderEmail argument as it came.
ValidateArgsNoSenderDefault(emailToValidate, senderEmail) ==
  [email |-> emailToValidate, sender |-> senderEmail,
   validateRegex |-> TRUE, validateMx |-> TRUE, validateTypo |-> TRUE,
   validateDisposable |-> TRUE, validateSMTP |-> TRUE]

\* The argument of validate({ email, sender, validateRegex, ... }).
ValidateArgs(emailToValidate, senderEmail) ==
  [email |-> emailToValidate, sender |-> Or(senderEmail, emailToValidate),
   validateRegex |-> TRUE, validateMx |-> TRUE, validateTypo |-> TRUE,
   validateDisposable |-> TRUE, validateSMTP |-> TRUE]

\* The calls of validate() that validateEmails makes, in order: the row and
\* the argument of each.
ValidateCalls(emails, emailColumn, senderEmail) ==
  LET called == SelectSeq([i \in 1..Len(emails) |-> i],
                          LAMBDA i : CallsChain(emails, emailColumn, i))
  IN  [k \in 1..Len(called) |->
         [row |-> called[k],
          args |-> ValidateArgs(Trim(ExtractEmail(emails[called[k]], emailColumn)),
                                senderEmail)]]

\* The catch block of validateEmailsWithSSE for one row: the error result is
\* pushed and the callback is called; what the callback throws there leaves
\* the function.
CatchBlock(acc, row, emailToValidate, errorMessage, callbackThrows) ==
  LET pushed == [acc EXCEPT !.results =
                   Append(@, SSEErrorResult(row, emailToValidate, errorMessage))]
  IN  IF callbackThrows THEN [pushed EXCEPT !.threw = TRUE]
      ELSE [pushed EXCEPT !.events =
              Append(@, EmailEvent(emailToValidate, FALSE,
                                   Str(<<"Validation error: ", errorMessage>>)))]

\* validateEmailsWithSSE(emails, emailColumn, senderEmail, onEmailValidated)
\* from row i on.  chain[i] is what validate() answers for row i, throws[i]
\* how the callback behaves for row i; acc holds the results pushed, the calls
\* of validate() made, the callback calls that returned, and whether an
\* exception left the function.
RECURSIVE ValidateEmailsWithSSELoop(_, _, _, _, _, _, _)
ValidateEmailsWithSSELoop(emails, emailColumn, senderEmail, chain, throws, i, acc) ==
  IF i > Len(emails) \/ acc.threw THEN acc
  ELSE
    LET row == emails[i]
        email == ExtractEmail(row, emailColumn)
        emailToValidate == Trim(email)
        validationResult == ChainOutput(chain[i])
        invalid == [acc EXCEPT !.results =
                      Append(@, SSEInvalidInputResult(row, email))]
        called == [acc EXCEPT !.calls =
                     Append(@, [row |-> i,
                                args |-> ValidateArgs(emailToValidate, senderEmail)])]
        pushed == [called EXCEPT !.results =
                     Append(@, SSEValidatedResult(row, emailToValidate,
                                                  validationResult))]
        after ==
          IF InvalidInput(email)
          THEN IF throws[i] # "never" THEN [invalid EXCEPT !.threw = TRUE]
               ELSE [invalid EXCEPT !.events =
                       Append(@, EmailEvent(Or(email, Str(<<>>)), FALSE,
                                            Str(<<"Invalid email format">>)))]
          ELSE IF chain[i] = "throw"
          THEN CatchBlock(called, row, emailToValidate, ChainErrorMessage,
                          throws[i] # "never")
          ELSE IF throws[i] = "never"
          THEN [pushed EXCEPT !.events =
                  Append(@, EmailEvent(emailToValidate, validationResult.valid,
                                       validationResult.reason))]
          ELSE CatchBlock(pushed, row, emailToValidate, CallbackError,
                          throws[i] = "always")
    IN  ValidateEmailsWithSSELoop(emails, emailColumn, senderEmail, chain,
                                  throws, i + 1, after)

ValidateEmailsWithSSE(emails, emailColumn, senderEmail, chain, throws) ==
  ValidateEmailsWithSSELoop(emails, emailColumn, senderEmail, chain, throws, 1,
    [results |-> <<>>, calls |-> <<>>, events |-> <<>>, threw |-> FALSE])

\* The answers of validate() for a row sequence, every stage included.
StageChainsFor(emails, emailColumn) ==
  {ch \in [1..Len(emails) -> ChainOutcomes \cup {NotCalled}] :
     \A i \in 1..Len(emails) :
       (ch[i] = NotCalled) <=> ~CallsChain(emails, emailColumn, i)}

\* A call of the processor that has not been made yet, with its arguments and
\* with what validate() and the callback will do.
Call(emails, emailColumn, senderEmail, chain, throws) ==
  [pc |-> "ready", fn |-> "none", emails |-> emails,
   emailColumn |-> emailColumn, senderEmail |-> senderEmail, chain |-> chain,
   throws |-> throws, results |-> <<>>, calls |-> <<>>, events |-> <<>>,
   threw |-> FALSE, stats |-> ZeroStats]

LibraryInit ==
  /\ sseConnections = [s \in Sessions |-> NoConn]
  /\ channels = <<>>
  /\ \E emails \in Inputs, emailColumn \in EmailColumns,
        senderEmail \in SenderEmails :
       \E chain \in StageChainsFor(emails, emailColumn),
          throws \in [1..Len(emails) -> CallbackThrows] :
         run = [r \in Runs |->
                  Call(emails, emailColumn, senderEmail, chain, throws)]
  /\ active = NoRun

\* await validateEmails(emails, emailColumn, senderEmail)
CallValidateEmails(r) ==
  /\ run[r].pc = "ready"
  /\ Update(r, [run[r] EXCEPT
       !.pc = "returned", !.fn = "validateEmails",
       !.results = ValidateEmails(run[r].emails, run[r].emailColumn, run[r].chain),
       !.calls = ValidateCalls(run[r].emails, run[r].emailColumn,
                               run[r].senderEmail)])
  /\ UNCHANGED <<sseConnections, channels, active>>

\* await validateEmailsWithSSE(emails, emailColumn, senderEmail, callback)
CallValidateEmailsWithSSE(r) ==
  /\ run[r].pc = "ready"
  /\ LET out == ValidateEmailsWithSSE(run[r].emails, run[r].emailColumn,
                                      run[r].senderEmail, run[r].chain,
                                      run[r].throws)
     IN  Update(r, [run[r] EXCEPT
           !.pc = "returned", !.fn = "validateEmailsWithSSE",
           !.results = out.results, !.calls = out.calls,
           !.events = out.events, !.threw = out.threw])
  /\ UNCHANGED <<sseConnections, channels, active>>

\* await processXLSXFile(inputPath, outputPath, emailColumn, senderEmail) on
\* a file that holds `emails`, read and written without error.
CallProcessXLSXFile(r) ==
  /\ run[r].pc = "ready"
  /\ LET out == ProcessXLSXFile(TRUE, run[r].emails, run[r].emailColumn,
                                run[r].chain, TRUE)
     IN  Update(r, [run[r] EXCEPT
           !.pc = "returned", !.fn = "processXLSXFile",
           !.results = out.results, !.stats = out.stats,
           !.calls = ValidateCalls(run[r].emails, run[r].emailColumn,
                                   run[r].senderEmail)])
  /\ UNCHANGED <<sseConnections, channels, active>>

LibraryNext ==
  \E r \in Runs :
    \/ CallValidateEmails(r)
    \/ CallValidateEmailsWithSSE(r)
    \/ CallProcessXLSXFile(r)

LibrarySpec == LibraryInit /\ [][LibraryNext]_vars

\* The call has returned and its results are those of the rows in order: it
\* is no call of validateEmailsWithSSE with a callback that throws.
ReturnedRows(r) ==
  /\ run[r].pc = "returned"
  /\ run[r].fn = "validateEmailsWithSSE" =>
       \A i \in 1..Len(run[r].emails) : run[r].throws[i] = "never"

\* The address of row i of the call is a non-empty string.
StringAddress(r, i) ==
  LET email == ExtractEmail(run[r].emails[i], run[r].emailColumn)
  IN  IsString(email) /\ Truthy(email)

C26_ChainCalledOncePerAddress ==
  \A r \in Runs :
    ReturnedRows(r) =>
      LET calls == run[r].calls
          sender == run[r].senderEmail
      IN  /\ \A i \in 1..Len(run[r].results) :
               StringAddress(r, i) =>
                 LET address == Trim(ExtractEmail(run[r].emails[i],
                                                  run[r].emailColumn))
                     res == run[r].results[i]
                 IN  /\ Cardinality({k \in 1..Len(calls) : calls[k].row = i}) = 1
                     /\ \A k \in 1..Len(calls) :
                          calls[k].row = i =>
                            /\ calls[k].args.email = address
                            /\ calls[k].args.sender
                                 = IF sender \in {Undefined, Str(<<>>)}
                                   THEN address ELSE sender
                            /\ calls[k].args.validateRegex
                            /\ calls[k].args.validateTypo
                            /\ calls[k].args.validateDisposable
                            /\ calls[k].args.validateMx
                            /\ calls[k].args.validateSMTP
                     /\ run[r].chain[i] # "throw" =>
                          LET returned == ChainOutput(run[r].chain[i])
                          IN  /\ Get(res, "valid") = Bool(returned.valid)
                              /\ Get(res, "reason") = returned.reason
                              /\ Get(res, "validators") = returned.validators
          /\ \A k \in 1..Len(calls) : StringAddress(r, calls[k].row)
          /\ (run[r].fn = "processXLSXFile" /\ run[r].emails # <<>>) =>
               /\ Len(run[r].results) = Len(run[r].emails)
               /\ run[r].stats.valid
                    = Cardinality({i \in 1..Len(run[r].emails) :
                                     run[r].chain[i] = "pass"})

\* processXLSXFile returned for two rows with string addresses, one padded
\* with blanks; validate() passed one and failed the other, and no sender
\* address was supplied.
C26_Witness ==
  \E r \in Runs :
    /\ run[r].pc = "returned"
    /\ run[r].fn = "processXLSXFile"
    /\ run[r].senderEmail = Undefined
    /\ Len(run[r].calls) = 2
    /\ run[r].chain[1] = "pass"
    /\ run[r].chain[2] = "mx"
    /\ run[r].calls[1].args.email # ExtractEmail(run[r].emails[1], run[r].emailColumn)

\* C28: validateEmailsWithSSE appends exactly one result per input row, also
\* when the onEmailValidated callback throws: the exception neither adds a
\* second result for the row nor leaves the function before the last row.
C28_OneResultPerRowDespiteCallback ==
  \A r \in Runs :
    (run[r].pc = "returned" /\ run[r].fn = "validateEmailsWithSSE") =>
      /\ ~run[r].threw
      /\ Len(run[r].results) = Len(run[r].emails)

\* C31: in every reachable state no channel the registry holds has been
\* ended, and nothing was written to a channel after end() was called on it,
\* whatever the order of registrations, publishes, completions, failures and
\* disconnects.
C31_RegistryHoldsLiveChannels ==
  /\ \A s \in Sessions :
       sseConnections[s] # NoConn => channels[sseConnections[s]].ends = 0
  /\ \A c \in 1..Len(channels) : ~channels[c].afterEnd

\* A failed run ended its subscriber's channel after events were delivered
\* to it, a second subscriber of the session was ended by its disconnect,
\* and the run has answered.
C31_Witness ==
  \E r \in Runs, c, d \in 1..Len(channels) :
    /\ run[r].response = "error"
    /\ HasSession(r)
    /\ c # d
    /\ channels[c].ends >= 1 /\ ~channels[c].closed
    /\ Len(channels[c].log) > 1
    /\ channels[d].closed

\* C32: whenever a success response or a complete event carries a reference
\* to the output file (downloadUrl, filename), the run it belongs to has
\* written that file, a run over a sheet without rows included.
C32_OutputReferenceExists ==
  /\ \A r \in Runs : run[r].response = "ok" => run[r].written
  /\ \A c \in 1..Len(channels) :
       \A k \in 1..Len(channels[c].log) :
         channels[c].log[k].type = "complete" =>
           run[channels[c].log[k].filename].written

\* C33: the front ends are equivalent.  For the same file, email column and
\* answers of validate(), every front end that accepted the upload answers
\* as the Express handler without a session does, that is with the outcome of
\* processXLSXFile on that file: the same success or error status and the
\* same stats, a file without rows included.
C33_FrontEndsAgree ==
  \A r \in Runs :
    (Responded(r) /\ run[r].response # "rejected") =>
      LET ref == Reference(r)
      IN  /\ (run[r].response = "ok") = ~ref.threw
          /\ run[r].response = "ok" => run[r].responseStats = ref.stats

\* ---------------------------------------------------- download endpoints
\* A path is the sequence of its segments below the root of the file system.
\* The longest requested name, in segments.
MaxSegments == 3

\* path.join(__dirname, '../output') and path.join(os.tmpdir(), 'output')
outputDir == <<"srv", "output">>

\* The files on disk: a validated workbook in the output directory, an
\* upload in the upload directory, and a file that belongs to neither.
Files ==
  {<<"srv", "output", "v.xlsx">>, <<"srv", "uploads", "u.xlsx">>,
   <<"srv", "key">>}

\* The segments a requested file name is made of, once the route parameter
\* is decoded.
Segments == {"..", "v.xlsx", "uploads", "u.xlsx", "key"}

\* req.params.filename / req.query.filename
Filenames == SeqsUpTo(Segments, MaxSegments)

\* path.normalize: a ".." segment removes the segment before it, and stays
\* at the root when there is none.
RECURSIVE Normalize(_, _)
Normalize(segments, done) ==
  IF segments = <<>> THEN done
  ELSE IF Head(segments) = ".."
  THEN Normalize(Tail(segments),
                 IF done = <<>> THEN <<>> ELSE SubSeq(done, 1, Len(done) - 1))
  ELSE Normalize(Tail(segments), Append(done, Head(segments)))

\* path.join(dir, filename)
Join(dir, filename) == Normalize(dir \o filename, <<>>)

\* A download request that has not been handled, and the files on disk.
Download(filename) ==
  [pc |-> "ready", filename |-> filename, files |-> Files,
   response |-> "none", sent |-> <<>>, filePath |-> <<>>]

DownloadInit ==
  /\ sseConnections = [s \in Sessions |-> NoConn]
  /\ channels = <<>>
  /\ \E filename \in Filenames : run = [r \in Runs |-> Download(filename)]
  /\ active = NoRun

\* app.get('/api/download/:filename'): 404 when the joined path does not
\* exist, res.download(filePath) otherwise, which sends the file at the
\* resolved path.  The route matches a non-empty parameter only.
ExpressDownload(r) ==
  /\ run[r].pc = "ready"
  /\ run[r].filename # <<>>
  /\ LET filePath == Join(outputDir, run[r].filename)
     IN  Update(r, [run[r] EXCEPT
           !.filePath = filePath,
           !.response = IF filePath \in run[r].files THEN "file" ELSE "404",
           !.sent = IF filePath \in run[r].files THEN filePath ELSE <<>>,
           !.pc = "done"])
  /\ UNCHANGED <<sseConnections, channels, active>>

\* The Vercel download handler: 400 without a file name, 404 when the joined
\* path does not exist, otherwise the file is read and sent and a timer is
\* set to delete it.
VercelDownload(r) ==
  /\ run[r].pc = "ready"
  /\ LET filePath == Join(outputDir, run[r].filename)
     IN  Update(r, [run[r] EXCEPT
           !.filePath = filePath,
           !.response = IF run[r].filename = <<>> THEN "400"
                        ELSE IF filePath \in run[r].files THEN "file" ELSE "404",
           !.sent = IF run[r].filename # <<>> /\ filePath \in run[r].files
                    THEN filePath ELSE <<>>,
           !.pc = IF run[r].filename # <<>> /\ filePath \in run[r].files
                  THEN "timer" ELSE "done"])
  /\ UNCHANGED <<sseConnections, channels, active>>

\* setTimeout(() => { if (fs.existsSync(filePath)) fs.unlinkSync(filePath) },
\* 1000) fires.
VercelDownloadTimer(r) ==
  /\ run[r].pc = "timer"
  /\ Update(r, [run[r] EXCEPT !.files = @ \ {run[r].filePath}, !.pc = "done"])
  /\ UNCHANGED <<sseConnections, channels, active>>

DownloadNext ==
  \E r \in Runs :
    \/ ExpressDownload(r)
    \/ VercelDownload(r)
    \/ VercelDownloadTimer(r)

DownloadSpec == DownloadInit /\ [][DownloadNext]_vars

\* Path p lies inside directory dir.
Inside(dir, p) == Len(p) > Len(dir) /\ SubSeq(p, 1, Len(dir)) = dir

\* C34: the download endpoints serve only files inside the output directory:
\* for every requested file name, one with ".." segments included, the file
\* that is read and sent lies inside the output directory, every other
\* request is answered with an error, and no file outside the output
\* directory is touched.
C34_DownloadStaysInOutputDir ==
  \A r \in Runs :
    /\ run[r].response = "file" => Inside(outputDir, run[r].sent)
    /\ \A f \in Files : ~Inside(outputDir, f) => f \in run[r].files


====
